---- MODULE Spec2Model ----
(***************************************************************************)
(* Model of the identity-exchange core of DLbackend:                       *)
(*   src/app.js            POST /delegate/fetchUserInfo (the login)         *)
(*   src/esignetService.js post_GetToken, generateSignedJwt,                *)
(*                         generateUniqueId, get_GetUserInfo,               *)
(*                         decodeUserInfoResponse, saveUserToDatabase       *)
(* Strings whose characters matter (URLs, identifiers, names) are          *)
(* sequences of one-character strings; JSON objects are functions from     *)
(* field names to values.                                                  *)
(***************************************************************************)
EXTENDS Integers, Sequences, FiniteSets, TLC

VARIABLES
    ESIGNET_SERVICE_URL,        \* configuration, fixed for a run of the server
    CLIENT_PRIVATE_KEY,
    USERINFO_RESPONSE_TYPE,
    JWE_USERINFO_PRIVATE_KEY,
    now,                        \* wall clock in milliseconds (Date.now())
    login,                      \* per handler slot: the state of the login it runs
    lastJti,                    \* jti of the latest assertion sent before the
                                \* one in flight (<<>> if none)
    replayed,                   \* two successive assertions carried the same jti
    users,                      \* rows of the credential store (users table)
    pendingApplications,        \* the in-memory Map: payment reference -> data
    applications,               \* rows of the application store
    payment,                    \* per handler slot: the payment call it runs
    lastCleanup,                \* the latest call of cleanupPendingApplications
    licence_categories,         \* rows of the licence_categories table
    calculation,                \* the calculatePayment call in progress
    lastAdminCall               \* the latest call that wrote licence_categories

vars == << ESIGNET_SERVICE_URL, CLIENT_PRIVATE_KEY, USERINFO_RESPONSE_TYPE,
           JWE_USERINFO_PRIVATE_KEY, now, login, lastJti, replayed,
           users, pendingApplications, applications, payment, lastCleanup,
           licence_categories, calculation, lastAdminCall >>

config == << ESIGNET_SERVICE_URL, CLIENT_PRIVATE_KEY, USERINFO_RESPONSE_TYPE,
             JWE_USERINFO_PRIVATE_KEY >>

\* the state of the payment flow, which no login touches
payments == << pendingApplications, applications, payment, lastCleanup,
               licence_categories, calculation, lastAdminCall >>

\* the state of the licence category routes
catalogue == << licence_categories, calculation, lastAdminCall >>

(***************************************************************************)
(* Bounds                                                                  *)
(***************************************************************************)
MaxClockTicks == 1      \* milliseconds the clock may advance in one behaviour
StartMs == 59999        \* clock at start: 1 ms before a second boundary
MaxClock == StartMs + MaxClockTicks
MaxCategories == 2      \* codes in one request of POST /api/calculate-payment

Logins == {"L1"}        \* handler slots: requests the server is serving

(***************************************************************************)
(* Strings                                                                 *)
(***************************************************************************)
Str(t) == t             \* a tuple of characters read as a string

IsWhitespace(c) == c = " "

RECURSIVE TrimStart(_)
TrimStart(s) ==
    IF s # <<>> /\ IsWhitespace(Head(s)) THEN TrimStart(Tail(s)) ELSE s

RECURSIVE TrimEnd(_)
TrimEnd(s) ==
    IF s # <<>> /\ IsWhitespace(s[Len(s)])
    THEN TrimEnd(SubSeq(s, 1, Len(s) - 1))
    ELSE s

Trim(s) == TrimEnd(TrimStart(s))

LowerChar(c) ==
    CASE c = "J" -> "j"
      [] c = "W" -> "w"
      [] c = "E" -> "e"
      [] c = "T" -> "t"
      [] OTHER -> c

toLowerCase(s) == [i \in 1..Len(s) |-> LowerChar(s[i])]

substring(s, from, to) ==
    SubSeq(s, from + 1, IF to < Len(s) THEN to ELSE Len(s))

Digits36 == << "0","1","2","3","4","5","6","7","8","9","a","b","c","d","e",
               "f","g","h","i","j","k","l","m","n","o","p","q","r","s","t",
               "u","v","w","x","y","z" >>

Radix == 36

RECURSIVE toString36(_)
toString36(n) ==
    IF n < Radix
    THEN << Digits36[n + 1] >>
    ELSE toString36(n \div Radix) \o << Digits36[(n % Radix) + 1] >>

getTokenEndPoint == Str(<<"/","t">>)        \* "/oauth/v2/token"
getUserInfoEndPoint == Str(<<"/","u">>)     \* "/oidc/userinfo"

baseUrl == Trim(ESIGNET_SERVICE_URL)

(***************************************************************************)
(* JSON values                                                             *)
(***************************************************************************)
EmptyObject == [k \in {} |-> <<>>]

JObject(m) == [jt |-> "object", v |-> m]
JNull == [jt |-> "null", v |-> EmptyObject]
JNumber == [jt |-> "number", v |-> EmptyObject]
JArray == [jt |-> "array", v |-> EmptyObject]

\* obj.k is truthy: the field is present and is a non-empty string
Truthy(obj, k) == k \in DOMAIN obj /\ obj[k] # <<>>

(***************************************************************************)
(* Response bodies as the handler sees them (response.data of axios).      *)
(*   enc   "none": not encrypted; "compact" | "flattened" | "general": a   *)
(*         JWE in that serialization (compact is a string, the other two   *)
(*         are JSON objects)                                               *)
(*   rcpt  the keys the JWE is encrypted to                                *)
(*   kind  of the (plaintext) content: "jws" a compact signed token with   *)
(*         payload val; "text" a string that is the JSON text of val;      *)
(*         "garbage" a string that is neither; "obj" an already parsed     *)
(*         JSON value val (not a string)                                   *)
(***************************************************************************)
Content(kind, val) == [enc |-> "none", rcpt |-> {}, kind |-> kind, val |-> val]
Jwe(ser, keys, kind, val) == [enc |-> ser, rcpt |-> keys, kind |-> kind, val |-> val]

IsString(r) == r.enc = "compact" \/ (r.enc = "none" /\ r.kind # "obj")

\* new TextDecoder().decode(plaintext): the plaintext of a JWE as a string
Plaintext(r) == Content(r.kind, r.val)

Thrown(e) == [ok |-> FALSE, value |-> JNull, error |-> e]
Returned(v) == [ok |-> TRUE, value |-> v, error |-> "none"]

\* jose.compactDecrypt: a string in compact serialization, decryptable by key
compactDecrypt(r, key) ==
    IF r.enc = "compact" /\ key \in r.rcpt
    THEN [ok |-> TRUE, plaintext |-> Plaintext(r)]
    ELSE [ok |-> FALSE, plaintext |-> r]

\* jose.flattenedDecrypt: an object in flattened serialization
flattenedDecrypt(r, key) ==
    IF r.enc = "flattened" /\ key \in r.rcpt
    THEN [ok |-> TRUE, plaintext |-> Plaintext(r)]
    ELSE [ok |-> FALSE, plaintext |-> r]

\* jose.generalDecrypt: an object with a recipients list, one of them for key
generalDecrypt(r, key) ==
    IF r.enc = "general" /\ key \in r.rcpt
    THEN [ok |-> TRUE, plaintext |-> Plaintext(r)]
    ELSE [ok |-> FALSE, plaintext |-> r]

\* jose.decodeJwt: the payload of a compact signed token, which must be a
\* JSON object; throws on anything else
decodeJwt(r) ==
    IF r.enc = "none" /\ r.kind = "jws" /\ r.val.jt = "object"
    THEN Returned(r.val)
    ELSE Thrown("JWTInvalid")

\* JSON.parse of a string
JSONparse(r) ==
    IF r.enc = "none" /\ r.kind = "text"
    THEN Returned(r.val)
    ELSE Thrown("SyntaxError")

\* the value of a response that is not a string (returned as it is)
AsValue(r) ==
    IF r.enc = "none" THEN r.val ELSE [jt |-> "jwe", v |-> EmptyObject]

(***************************************************************************)
(* Configuration values                                                    *)
(***************************************************************************)
\* a key setting: set (truthy), json (its text parses as JSON), jwk
\* (importJWK accepts it), kid (which key it is)
NoKey == [set |-> FALSE, json |-> FALSE, jwk |-> FALSE, kid |-> "none"]
NotJsonKey == [set |-> TRUE, json |-> FALSE, jwk |-> FALSE, kid |-> "none"]
NotJwkKey == [set |-> TRUE, json |-> TRUE, jwk |-> FALSE, kid |-> "none"]
Key(k) == [set |-> TRUE, json |-> TRUE, jwk |-> TRUE, kid |-> k]

JWE == Str(<<"j","w","e">>)

(***************************************************************************)
(* decodeUserInfoResponse, decryption stage (esignetService.js 191-217).   *)
(* trace lists the jose operations attempted, in order.                    *)
(***************************************************************************)
Stage(ok, response, error, trace) ==
    [ok |-> ok, response |-> response, error |-> error, trace |-> trace]

\* variant: flattened is tried before compact
DecryptChain_FlattenedFirst(response, privateKeyObj) ==
    LET c == compactDecrypt(response, privateKeyObj)
        f == flattenedDecrypt(response, privateKeyObj)
        g == generalDecrypt(response, privateKeyObj)
    IN  IF f.ok
        THEN Stage(TRUE, f.plaintext, "none", <<"flattenedDecrypt">>)
        ELSE IF c.ok
        THEN Stage(TRUE, c.plaintext, "none",
                   <<"flattenedDecrypt", "compactDecrypt">>)
        ELSE IF g.ok
        THEN Stage(TRUE, g.plaintext, "none",
                   <<"flattenedDecrypt", "compactDecrypt", "generalDecrypt">>)
        ELSE Stage(FALSE, response, "DecryptionError",
                   <<"flattenedDecrypt", "compactDecrypt", "generalDecrypt">>)

\* variant: the failure of the last strategy is swallowed and the body is
\* passed on undecrypted
DecryptChain_SwallowsFailure(response, privateKeyObj) ==
    LET c == compactDecrypt(response, privateKeyObj)
        f == flattenedDecrypt(response, privateKeyObj)
        g == generalDecrypt(response, privateKeyObj)
    IN  IF c.ok
        THEN Stage(TRUE, c.plaintext, "none", <<"compactDecrypt">>)
        ELSE IF f.ok
        THEN Stage(TRUE, f.plaintext, "none",
                   <<"compactDecrypt", "flattenedDecrypt">>)
        ELSE IF g.ok
        THEN Stage(TRUE, g.plaintext, "none",
                   <<"compactDecrypt", "flattenedDecrypt", "generalDecrypt">>)
        ELSE Stage(TRUE, response, "none",
                   <<"compactDecrypt", "flattenedDecrypt", "generalDecrypt">>)

\* variant: the flattened branch does not assign the plaintext to response
DecryptChain_FlattenedKeepsEnvelope(response, privateKeyObj) ==
    LET c == compactDecrypt(response, privateKeyObj)
        f == flattenedDecrypt(response, privateKeyObj)
        g == generalDecrypt(response, privateKeyObj)
    IN  IF c.ok
        THEN Stage(TRUE, c.plaintext, "none", <<"compactDecrypt">>)
        ELSE IF f.ok
        THEN Stage(TRUE, response, "none",
                   <<"compactDecrypt", "flattenedDecrypt">>)
        ELSE IF g.ok
        THEN Stage(TRUE, g.plaintext, "none",
                   <<"compactDecrypt", "flattenedDecrypt", "generalDecrypt">>)
        ELSE Stage(FALSE, response, "DecryptionError",
                   <<"compactDecrypt", "flattenedDecrypt", "generalDecrypt">>)

DecryptChain(response, privateKeyObj) ==
    LET c == compactDecrypt(response, privateKeyObj)
        f == flattenedDecrypt(response, privateKeyObj)
        g == generalDecrypt(response, privateKeyObj)
    IN  IF c.ok
        THEN Stage(TRUE, c.plaintext, "none", <<"compactDecrypt">>)
        ELSE IF f.ok
        THEN Stage(TRUE, f.plaintext, "none",
                   <<"compactDecrypt", "flattenedDecrypt">>)
        ELSE IF g.ok
        THEN Stage(TRUE, g.plaintext, "none",
                   <<"compactDecrypt", "flattenedDecrypt", "generalDecrypt">>)
        ELSE Stage(FALSE, response, "DecryptionError",
                   <<"compactDecrypt", "flattenedDecrypt", "generalDecrypt">>)

IsJweConfigured ==
    USERINFO_RESPONSE_TYPE # <<>> /\ toLowerCase(USERINFO_RESPONSE_TYPE) = JWE

DecryptStage(userInfoResponse) ==
    IF IsJweConfigured
    THEN IF ~JWE_USERINFO_PRIVATE_KEY.set
         THEN Stage(FALSE, userInfoResponse, "JWE_USERINFO_PRIVATE_KEY is required", <<>>)
         ELSE IF ~JWE_USERINFO_PRIVATE_KEY.json
         THEN Stage(FALSE, userInfoResponse, "SyntaxError", <<>>)
         ELSE IF ~JWE_USERINFO_PRIVATE_KEY.jwk
         THEN Stage(FALSE, userInfoResponse, "JWKInvalid", <<>>)
         ELSE DecryptChain(userInfoResponse, JWE_USERINFO_PRIVATE_KEY.kid)
    ELSE Stage(TRUE, userInfoResponse, "none", <<>>)

(***************************************************************************)
(* decodeUserInfoResponse, decoding stage (esignetService.js 219-231)      *)
(***************************************************************************)
Decoded(ok, value, error, trace) ==
    [ok |-> ok, value |-> value, error |-> error, trace |-> trace]

\* variant: no JSON fallback, a failed token decode is the format error
DecodeStage_NoJsonFallback(response) ==
    LET j == decodeJwt(response)
    IN  IF j.ok
        THEN Decoded(TRUE, j.value, "none", <<"decodeJwt">>)
        ELSE Decoded(FALSE, JNull, "Invalid user info response format",
                     <<"decodeJwt">>)

DecodeStage(response) ==
    LET j == decodeJwt(response)
        p == JSONparse(response)
    IN  IF j.ok
        THEN Decoded(TRUE, j.value, "none", <<"decodeJwt">>)
        ELSE IF ~IsString(response)
        THEN Decoded(TRUE, AsValue(response), "none", <<"decodeJwt">>)
        ELSE IF p.ok
        THEN Decoded(TRUE, p.value, "none", <<"decodeJwt", "JSON.parse">>)
        ELSE Decoded(FALSE, JNull, "Invalid user info response format",
                     <<"decodeJwt", "JSON.parse">>)

decodeUserInfoResponse(userInfoResponse) ==
    LET d == DecryptStage(userInfoResponse)
        r == DecodeStage(d.response)
    IN  IF ~d.ok
        THEN Decoded(FALSE, JNull, d.error, d.trace)
        ELSE Decoded(r.ok, r.value, r.error, d.trace \o r.trace)

(***************************************************************************)
(* saveUserToDatabase (esignetService.js 107-144).  dbOk: whether the      *)
(* INSERT of User.saveUser succeeds.  Everything thrown inside is caught   *)
(* and null is returned; outcome records what happened.                    *)
(***************************************************************************)
Unknown == Str(<<"U","n","k","n","o","w","n">>)
UserPrefix == Str(<<"U","s","e","r","_">>)
SubPrefixLen == 10

\* userInfo.sub || userInfo.user_id  (<<>> when neither is truthy)
SubjectOf(userInfo) ==
    IF Truthy(userInfo.v, "sub") THEN userInfo.v.sub
    ELSE IF Truthy(userInfo.v, "user_id") THEN userInfo.v.user_id
    ELSE <<>>

\* userInfo.name || 'Unknown', replaced by User_<first 10 of sub> if Unknown
NameOf(userInfo) ==
    LET name == IF Truthy(userInfo.v, "name") THEN userInfo.v.name ELSE Unknown
    IN  IF name = Unknown
        THEN UserPrefix \o substring(SubjectOf(userInfo), 0, SubPrefixLen)
        ELSE name

Upsert(rows, row) == {u \in rows : u.sub # row.sub} \cup {row}

saveUserToDatabase(userInfo, dbOk) ==
    IF userInfo.jt = "null"
    THEN [outcome |-> "TypeError", rows |-> users]
    ELSE IF SubjectOf(userInfo) = <<>>
    THEN [outcome |-> "sub is required", rows |-> users]
    ELSE IF ~dbOk
    THEN [outcome |-> "saveUser threw", rows |-> users]
    ELSE [outcome |-> "saved",
          rows |-> Upsert(users, [sub |-> SubjectOf(userInfo),
                                  name |-> NameOf(userInfo)])]

(***************************************************************************)
(* generateUniqueId and generateSignedJwt (esignetService.js 151-181).     *)
(* random: the digits of Math.random().toString(36) after "0."; tJti,      *)
(* tIat, tExp: the clock readings of Date.now(), setIssuedAt() and         *)
(* setExpirationTime("5m").                                                *)
(***************************************************************************)
MsPerSecond == 1000
FiveMinutes == 300

generateUniqueId(random, tJti) == random \o toString36(tJti)

AssertionAudience == ESIGNET_SERVICE_URL \o getTokenEndPoint

NoAssertion ==
    [iss |-> <<>>, sub |-> <<>>, aud |-> <<>>, jti |-> <<>>, iat |-> 0, exp |-> 0]

generateSignedJwt(clientId, random, tJti, tIat, tExp) ==
    IF ~CLIENT_PRIVATE_KEY.set
    THEN [ok |-> FALSE, error |-> "CLIENT_PRIVATE_KEY is not configured",
          jwt |-> NoAssertion]
    ELSE IF ~CLIENT_PRIVATE_KEY.jwk
    THEN [ok |-> FALSE, error |-> "JWKInvalid", jwt |-> NoAssertion]
    ELSE [ok |-> TRUE, error |-> "none",
          jwt |-> [iss |-> clientId,
                   sub |-> clientId,
                   aud |-> AssertionAudience,
                   jti |-> generateUniqueId(random, tJti),
                   iat |-> tIat \div MsPerSecond,
                   exp |-> (tExp \div MsPerSecond) + FiveMinutes]]

(***************************************************************************)
(* Inputs                                                                  *)
(***************************************************************************)
Url == Str(<<"h">>)
ServiceUrls == { <<>>, <<" ">>, Url, Url \o <<" ">>, <<" ">> \o Url }
ClientKeys == { NoKey, NotJwkKey, Key("C") }
ResponseTypes == { <<>>, Str(<<"j","w","t">>), JWE, Str(<<"J","W","E">>) }
DecryptionKeys == { NoKey, NotJsonKey, NotJwkKey, Key("K1"), Key("K2") }

ClientIds == { Str(<<"r","p","1">>) }
Codes == { Str(<<"A","1">>) }
RandomDigits == { <<>>, Str(<<"1","a">>) }

InvalidGrant == Str(<<"i","g">>)
Tok1 == Str(<<"t","1">>)
Undefined == Str(<<"u","n","d","e","f","i","n","e","d">>)

\* outcomes of the token POST: a transport failure or a JSON body
TokenBodies ==
    { JObject([access_token |-> Tok1]),
      JObject([error |-> InvalidGrant]),
      JObject([error |-> InvalidGrant, access_token |-> Tok1]),
      JObject([error |-> <<>>, access_token |-> Tok1]),
      JObject(EmptyObject),
      JNull }

S1 == Str(<<"S","-","1">>)
LongSub == Str(<<"S","-","1","2","3","4","5","6","7","8","9">>)
Alice == Str(<<"A","l">>)

ClaimsObjects ==
    { JObject([sub |-> S1, name |-> Alice]),
      JObject([user_id |-> LongSub, name |-> Unknown]),
      JObject([name |-> Alice]) }

\* what a signed token or an encrypted envelope can carry as a string
StringContents ==
    { Content("jws", c) : c \in ClaimsObjects \cup {JArray} }
    \cup { Content("text", c) : c \in {JObject([sub |-> S1, name |-> Alice]),
                                        JNull, JNumber, JArray} }
    \cup { Content("garbage", JNull) }

\* a JSON body that axios has already parsed
ParsedContents ==
    { Content("obj", c) : c \in {JObject([sub |-> S1, name |-> Alice]), JNull} }

Envelopes ==
    { Jwe(ser, {"K1"}, c.kind, c.val) :
        ser \in {"compact", "flattened", "general"},
        c \in { Content("jws", JObject([sub |-> S1, name |-> Alice])),
                Content("text", JObject([sub |-> S1, name |-> Alice])),
                Content("text", JNull),
                Content("garbage", JNull) } }
    \cup { Jwe("general", {"K1", "K2"}, "jws", JObject([name |-> Alice])) }

UserInfoBodies == StringContents \cup ParsedContents \cup Envelopes

(***************************************************************************)
(* State of one login (one run of the POST /delegate/fetchUserInfo         *)
(* handler, app.js 43-59)                                                  *)
(***************************************************************************)
NoRequest ==
    [url |-> <<>>, code |-> <<>>, assertion |-> NoAssertion, bearer |-> <<>>]

\* no response received (yet)
NoResponse == [jt |-> "none", v |-> EmptyObject]
NoData == Content("none", JNull)

\* pc: where the handler is; code, client_id: the fields of req.body;
\* request: the HTTP request it awaits; posts, gets: requests it has sent to
\* the token and user-info endpoints; failed: the axios call that threw;
\* tokenResponse, data: the bodies it received; status, error, result: its
\* answer; trace: the jose/JSON operations decodeUserInfoResponse attempted;
\* saveCalls, save: calls of saveUserToDatabase and what the last one did
Idle ==
    [pc |-> "idle", code |-> <<>>, client_id |-> <<>>,
     request |-> NoRequest, posts |-> 0, gets |-> 0, failed |-> "none",
     tokenResponse |-> NoResponse, data |-> NoData,
     status |-> 0, error |-> "none", result |-> JNull, trace |-> <<>>,
     saveCalls |-> 0, save |-> "not called"]

\* the handler has answered: res.status(status).json(...)
Respond(rec, status, error, result) ==
    [rec EXCEPT !.pc = "done", !.request = NoRequest, !.status = status,
                !.error = error, !.result = result]

(***************************************************************************)
(* Payment flow (esignetService.js 395-449, 515-581; app.js 221-273).      *)
(* A payment reference is the string `PAY-${Date.now()}`, an application   *)
(* id the string `DMT-${sub.slice(-5)}-${4 random digits}`.                *)
(***************************************************************************)
PaymentCalls == {"P1"}    \* handler slots of the two payment routes

RECURSIVE toString10(_)
toString10(n) ==
    IF n < 10
    THEN << Digits36[n + 1] >>
    ELSE toString10(n \div 10) \o << Digits36[(n % 10) + 1] >>

\* s.slice(-n): the last n characters of s
sliceLast(s, n) == SubSeq(s, IF Len(s) > n THEN Len(s) - n + 1 ELSE 1, Len(s))

paymentReferenceIdAt(t) == Str(<<"P","A","Y","-">>) \o toString10(t)

applicationIdOf(sub, random) ==
    Str(<<"D","M","T","-">>) \o sliceLast(sub, 5) \o <<"-">> \o toString10(random)

\* JSON.stringify of a JSON value: a string that is its JSON text
JSONstringify(val) == Content("text", val)

\* a request field is present and truthy (an object, an array, a number)
Present(val) == val.jt # "null"

\* User.findBySub: the rows of the users table with that sub (none: null)
findBySub(sub) == {u \in users : u.sub = sub}

\* Map.prototype.set and Map.prototype.delete
MapSet(map, key, value) ==
    [k \in DOMAIN map \cup {key} |-> IF k = key THEN value ELSE map[k]]
MapDelete(map, key) == [k \in DOMAIN map \ {key} |-> map[k]]

\* User.saveApplication: INSERT INTO applications; application_id is UNIQUE.
\* dbOk: whether the database accepts the statement otherwise.
saveApplication(applicationData, dbOk) ==
    IF \/ ~dbOk
       \/ \E row \in applications :
              row.application_id = applicationData.application_id
    THEN [ok |-> FALSE, rows |-> applications]
    ELSE [ok |-> TRUE,
          rows |-> applications \cup
                     {[application_id |-> applicationData.application_id,
                       payment_reference_id |-> applicationData.payment_reference_id,
                       status |-> applicationData.status]}]

\* the fields of an application the payment flow decides on; the medical
\* certificate id, the amount and the transaction id are carried along
\* unread and are left out
NoApplicationData ==
    [user_id |-> <<>>, application_id |-> <<>>, selected_categories |-> JNull,
     payment_reference_id |-> <<>>, status |-> "none"]

\* op: the service function the slot runs; pc: where it is; the arguments of
\* confirmPayment; applicationData: the argument of the saveApplication call
\* it awaits; status, error, applicationId: the answer of the route; saved:
\* saveApplication returned a row
NoCall ==
    [op |-> "none", pc |-> "idle", paymentReferenceId |-> <<>>,
     paymentSuccess |-> "undefined", applicationData |-> NoApplicationData,
     status |-> 0, error |-> "none", applicationId |-> <<>>, saved |-> FALSE]

\* the call threw: the route answers res.status(400).json({error})
Rejected(op, paymentReferenceId, error) ==
    [NoCall EXCEPT !.op = op, !.pc = "done", !.status = 400, !.error = error,
                   !.paymentReferenceId = paymentReferenceId]

\* requests of POST /api/initiate-payment: a complete one and one for each
\* way of being incomplete or unacceptable
S2 == Str(<<"S","-","2">>)
CompleteApplication ==
    [userInfo |-> JObject([sub |-> S1]),
     medicalCertificate |-> JObject([certificateId |-> <<"M">>]),
     selectedCategories |-> JArray,
     paymentDetails |-> JObject([totalAmount |-> <<"2","5">>])]
ApplicationRequests ==
    { CompleteApplication,
      [CompleteApplication EXCEPT !.userInfo = JNull],
      [CompleteApplication EXCEPT !.userInfo = JObject(EmptyObject)],
      [CompleteApplication EXCEPT !.userInfo = JObject([sub |-> S2])],
      [CompleteApplication EXCEPT !.medicalCertificate = JNull],
      [CompleteApplication EXCEPT !.selectedCategories = JNull],
      [CompleteApplication EXCEPT !.selectedCategories = JNumber],
      [CompleteApplication EXCEPT !.paymentDetails = JNull],
      [CompleteApplication EXCEPT !.paymentDetails = JObject(EmptyObject)] }
RandomFourDigits == { 1000, 9999 }

\* requests of POST /api/confirm-payment
PaymentReferenceIds ==
    { <<>> } \cup { paymentReferenceIdAt(t) : t \in StartMs..MaxClock }
PaymentSuccesses == { "undefined", "true", "false" }

(***************************************************************************)
(* cleanupPendingApplications (esignetService.js 487-506): data            *)
(***************************************************************************)
MsPerMinute == 60000
DefaultMaxAgeMinutes == 60

\* no cleanup has run
NoCleanup ==
    [called |-> FALSE, maxAgeMinutes |-> 0, now |-> 0, cleanedCount |-> 0]

\* the maxAgeMinutes a caller passes; the timer passes none (the default)
MaxAges == { 0, 1, DefaultMaxAgeMinutes }

\* clock readings around the ages of 1 and 60 minutes
CleanupTimes ==
    { StartMs + d : d \in { 0, 1, MsPerMinute, MsPerMinute + 1,
                            DefaultMaxAgeMinutes * MsPerMinute,
                            DefaultMaxAgeMinutes * MsPerMinute + 1 } }

(***************************************************************************)
(* Licence categories (part_000 24-41, 82-176, 211-280) and                *)
(* calculatePayment (esignetService.js 321-356): data                      *)
(***************************************************************************)
\* a value of the DECIMAL column fee, which the driver hands over as text:
\* the digits of a number, or the value 'NaN' the column type admits
Decimal(n) == [type |-> "decimal", nan |-> FALSE, digits |-> n]
DecimalNaN == [type |-> "decimal", nan |-> TRUE, digits |-> 0]

\* a JavaScript number
Number(n) == [type |-> "number", numeric |-> TRUE, value |-> n]
NaN == [type |-> "number", numeric |-> FALSE, value |-> 0]
parseFloat(fee) == IF fee.nan THEN NaN ELSE Number(fee.digits)
isNaN(fee) == ~fee.numeric

SeedFee == 1500         \* the fee of the seeded category
CodeA == Str(<<"A">>)
CodeB == Str(<<"B">>)

\* the rows seedLicenceCategories writes (one of them stands for all)
SeedRows == { [category_code |-> CodeA, fee |-> Decimal(SeedFee)] }

\* is_active is true (the column default) or false
SeededCategories ==
    { [category_code |-> r.category_code, fee |-> r.fee, is_active |-> "true"] :
          r \in SeedRows }

\* A is seeded; B exists only once an administrator has added it
CategoryCodes == { CodeA, CodeB }
Fees == { Decimal(0), Decimal(SeedFee), DecimalNaN }
\* is_active as an update passes it; an update that passes none stores NULL,
\* which the filter is_active = true excludes as it does false
ActiveValues == { "true", "false" }

\* op, category_code: the call; row: whether it returned a row
Seeded == [op |-> "seedLicenceCategories", category_code |-> <<>>, row |-> FALSE]

\* categories: req.body.categories (array: whether it is an array); next:
\* the index of the code the loop looks up next; lookups: what each call of
\* User.getLicenceCategoryByCode gave (it threw, or the rows it returned);
\* totalAmount, breakdown: the loop's accumulators; status, error: the answer
\* of the route
NoCalculation ==
    [pc |-> "idle", array |-> FALSE, categories |-> <<>>, next |-> 0,
     lookups |-> <<>>, totalAmount |-> 0, breakdown |-> <<>>, status |-> 0,
     error |-> "none"]

\* the decryption key is read only when the response type is jwe: for the
\* other response types an unset and a usable key stand for all of its values
Init ==
    /\ ESIGNET_SERVICE_URL \in ServiceUrls
    /\ CLIENT_PRIVATE_KEY \in ClientKeys
    /\ USERINFO_RESPONSE_TYPE \in ResponseTypes
    /\ JWE_USERINFO_PRIVATE_KEY \in
          IF IsJweConfigured THEN DecryptionKeys ELSE { NoKey, Key("K1") }
    /\ now = StartMs
    /\ login = [l \in Logins |-> Idle]
    /\ lastJti = <<>>
    /\ replayed = FALSE
    /\ users = {}
    /\ pendingApplications = EmptyObject
    /\ applications = {}
    /\ payment = [p \in PaymentCalls |-> NoCall]
    /\ lastCleanup = NoCleanup
    /\ licence_categories = SeededCategories
    /\ calculation = NoCalculation
    /\ lastAdminCall = Seeded

(***************************************************************************)
(* A login request arrives: the handler calls post_GetToken, which checks  *)
(* baseUrl, builds the client assertion and sends the token POST           *)
(* (app.js 43-46, esignetService.js 33-60).                                *)
(***************************************************************************)
post_GetToken(l, code, client_id, random, tJti, tIat, tExp) ==
    LET signed == generateSignedJwt(client_id, random, tJti, tIat, tExp)
        endpoint == baseUrl \o getTokenEndPoint
        started == [Idle EXCEPT !.code = code, !.client_id = client_id]
    IN  /\ login[l].pc \in {"idle", "done"}
        /\ now <= tJti /\ tJti <= tIat /\ tIat <= tExp /\ tExp <= MaxClock
        /\ IF baseUrl = <<>>
           THEN /\ login' = [login EXCEPT ![l] =
                     Respond(started, 500, "ESIGNET_SERVICE_URL is not configured", JNull)]
                /\ UNCHANGED << now, lastJti, replayed >>
           ELSE IF ~signed.ok
           THEN /\ login' = [login EXCEPT ![l] =
                     Respond(started, 500, signed.error, JNull)]
                /\ UNCHANGED << now, lastJti, replayed >>
           ELSE /\ login' = [login EXCEPT ![l] =
                     [started EXCEPT !.pc = "await_token", !.posts = @ + 1,
                                  !.request = [url |-> endpoint,
                                               code |-> code,
                                               assertion |-> signed.jwt,
                                               bearer |-> <<>>]]]
                /\ now' = tExp
                /\ lastJti' = signed.jwt.jti
                /\ replayed' = (replayed \/ signed.jwt.jti = lastJti)
        /\ UNCHANGED << config, users >>
        /\ UNCHANGED payments

(***************************************************************************)
(* The token POST completes.  A transport failure is rethrown by           *)
(* post_GetToken (esignetService.js 62-65) and answered with 500.  On a    *)
(* body the handler tests tokenResponse.error and otherwise calls          *)
(* get_GetUserInfo, which sends the user-info GET (app.js 47-53,           *)
(* esignetService.js 73-85).                                               *)
(***************************************************************************)
\* variant: the failure of the token POST is swallowed and the user-info
\* request is sent all the same
TokenTransportFailure_Continues(l) ==
    /\ login[l].pc = "await_token"
    /\ login' = [login EXCEPT ![l] =
          [@ EXCEPT !.pc = "await_userinfo", !.gets = @ + 1,
                    !.failed = "token POST",
                    !.request = [url |-> baseUrl \o getUserInfoEndPoint,
                                 code |-> <<>>,
                                 assertion |-> NoAssertion,
                                 bearer |-> Undefined]]]
    /\ UNCHANGED << config, now, lastJti, replayed, users >>
    /\ UNCHANGED payments

TokenTransportFailure(l) ==
    /\ login[l].pc = "await_token"
    /\ login' = [login EXCEPT ![l] =
          [Respond(@, 500, "TransportError", JNull)
              EXCEPT !.failed = "token POST"]]
    /\ UNCHANGED << config, now, lastJti, replayed, users >>
    /\ UNCHANGED payments

\* variant: the access token is kept in a module-level variable, which a
\* login that is already waiting for its user-info response has overwritten
BearerOf_ModuleVariable(tokenResponse) ==
    IF \E m \in DOMAIN login : login[m].pc = "await_userinfo"
    THEN login[CHOOSE m \in DOMAIN login : login[m].pc = "await_userinfo"]
            .request.bearer
    ELSE IF "access_token" \in DOMAIN tokenResponse.v
    THEN tokenResponse.v.access_token
    ELSE Undefined

\* "Bearer " + access_token
BearerOf(tokenResponse) ==
    IF "access_token" \in DOMAIN tokenResponse.v
    THEN tokenResponse.v.access_token
    ELSE Undefined

\* if (tokenResponse.error)
HasError(tokenResponse) == Truthy(tokenResponse.v, "error")

TokenResponse(l, tokenResponse) ==
    /\ login[l].pc = "await_token"
    /\ login' = [login EXCEPT ![l] =
          IF tokenResponse.jt = "null"
          THEN [Respond(@, 500, "TypeError", JNull)
                   EXCEPT !.tokenResponse = tokenResponse]
          ELSE IF HasError(tokenResponse)
          THEN [Respond(@, 400, "none", tokenResponse)
                   EXCEPT !.tokenResponse = tokenResponse]
          ELSE IF baseUrl = <<>>
          THEN [Respond(@, 500, "ESIGNET_SERVICE_URL is not configured", JNull)
                   EXCEPT !.tokenResponse = tokenResponse]
          ELSE [@ EXCEPT !.pc = "await_userinfo", !.gets = @ + 1,
                         !.tokenResponse = tokenResponse,
                         !.request = [url |-> baseUrl \o getUserInfoEndPoint,
                                      code |-> <<>>,
                                      assertion |-> NoAssertion,
                                      bearer |-> BearerOf(tokenResponse)]]]
    /\ UNCHANGED << config, now, lastJti, replayed, users >>
    /\ UNCHANGED payments

(***************************************************************************)
(* The user-info GET completes: get_GetUserInfo decodes the body, saves    *)
(* the user (best effort) and returns the claims, which the handler sends  *)
(* with res.json (esignetService.js 86-100, app.js 53-58).                 *)
(***************************************************************************)
\* variant: a failed user-info GET is sent again
UserInfoTransportFailure_Retries(l) ==
    /\ login[l].pc = "await_userinfo"
    /\ login' = [login EXCEPT ![l] =
          [@ EXCEPT !.gets = @ + 1, !.failed = "user-info GET"]]
    /\ UNCHANGED << config, now, lastJti, replayed, users >>
    /\ UNCHANGED payments

UserInfoTransportFailure(l) ==
    /\ login[l].pc = "await_userinfo"
    /\ login' = [login EXCEPT ![l] =
          [Respond(@, 500, "TransportError", JNull)
              EXCEPT !.failed = "user-info GET"]]
    /\ UNCHANGED << config, now, lastJti, replayed, users >>
    /\ UNCHANGED payments

\* variant: a failed or skipped save fails the login
get_GetUserInfo_SaveFailureThrows(l, data, dbOk) ==
    LET userInfo == decodeUserInfoResponse(data)
        saved == saveUserToDatabase(userInfo.value, dbOk)
    IN  /\ login[l].pc = "await_userinfo"
        /\ IF ~userInfo.ok
           THEN /\ login' = [login EXCEPT ![l] =
                     [Respond(@, 500, userInfo.error, JNull)
                         EXCEPT !.data = data, !.trace = userInfo.trace]]
                /\ users' = users
           ELSE IF saved.outcome # "saved"
           THEN /\ login' = [login EXCEPT ![l] =
                     [Respond(@, 500, saved.outcome, JNull)
                         EXCEPT !.data = data, !.trace = userInfo.trace,
                                !.saveCalls = @ + 1,
                                !.save = saved.outcome]]
                /\ users' = users
           ELSE /\ login' = [login EXCEPT ![l] =
                     [Respond(@, 200, "none", userInfo.value)
                         EXCEPT !.data = data, !.trace = userInfo.trace,
                                !.saveCalls = @ + 1,
                                !.save = saved.outcome]]
                /\ users' = saved.rows
        /\ UNCHANGED << config, now, lastJti, replayed >>
        /\ UNCHANGED payments

\* variant: saveUserToDatabase is called before the body is decoded, so
\* also for a body that does not decode
get_GetUserInfo_SavesUndecoded(l, data, dbOk) ==
    LET userInfo == decodeUserInfoResponse(data)
        saved == saveUserToDatabase(userInfo.value, dbOk)
    IN  /\ login[l].pc = "await_userinfo"
        /\ IF ~userInfo.ok
           THEN /\ login' = [login EXCEPT ![l] =
                     [Respond(@, 500, userInfo.error, JNull)
                         EXCEPT !.data = data, !.trace = userInfo.trace,
                                !.saveCalls = @ + 1,
                                !.save = saved.outcome]]
                /\ users' = saved.rows
           ELSE /\ login' = [login EXCEPT ![l] =
                     [Respond(@, 200, "none", userInfo.value)
                         EXCEPT !.data = data, !.trace = userInfo.trace,
                                !.saveCalls = @ + 1,
                                !.save = saved.outcome]]
                /\ users' = saved.rows
        /\ UNCHANGED << config, now, lastJti, replayed >>
        /\ UNCHANGED payments

\* variant: the saved user (userData) is returned instead of the claims
get_GetUserInfo_ReturnsSavedUser(l, data, dbOk) ==
    LET userInfo == decodeUserInfoResponse(data)
        saved == saveUserToDatabase(userInfo.value, dbOk)
        userData == JObject([sub |-> SubjectOf(userInfo.value),
                             name |-> NameOf(userInfo.value)])
    IN  /\ login[l].pc = "await_userinfo"
        /\ IF ~userInfo.ok
           THEN /\ login' = [login EXCEPT ![l] =
                     [Respond(@, 500, userInfo.error, JNull)
                         EXCEPT !.data = data, !.trace = userInfo.trace]]
                /\ users' = users
           ELSE /\ login' = [login EXCEPT ![l] =
                     [Respond(@, 200, "none",
                              IF saved.outcome = "saved"
                              THEN userData ELSE userInfo.value)
                         EXCEPT !.data = data, !.trace = userInfo.trace,
                                !.saveCalls = @ + 1,
                                !.save = saved.outcome]]
                /\ users' = saved.rows
        /\ UNCHANGED << config, now, lastJti, replayed >>
        /\ UNCHANGED payments

get_GetUserInfo(l, data, dbOk) ==
    LET userInfo == decodeUserInfoResponse(data)
        saved == saveUserToDatabase(userInfo.value, dbOk)
    IN  /\ login[l].pc = "await_userinfo"
        /\ IF ~userInfo.ok
           THEN /\ login' = [login EXCEPT ![l] =
                     [Respond(@, 500, userInfo.error, JNull)
                         EXCEPT !.data = data, !.trace = userInfo.trace]]
                /\ users' = users
           ELSE /\ login' = [login EXCEPT ![l] =
                     [Respond(@, 200, "none", userInfo.value)
                         EXCEPT !.data = data, !.trace = userInfo.trace,
                                !.saveCalls = @ + 1,
                                !.save = saved.outcome]]
                /\ users' = saved.rows
        /\ UNCHANGED << config, now, lastJti, replayed >>
        /\ UNCHANGED payments

\* time passes
Tick ==
    /\ now < MaxClock
    /\ now' = now + 1
    /\ UNCHANGED << config, login, lastJti, replayed, users >>
    /\ UNCHANGED payments

Next ==
    \/ \E l \in Logins, code \in Codes, client_id \in ClientIds,
          random \in RandomDigits, tJti, tIat, tExp \in StartMs..MaxClock :
            post_GetToken(l, code, client_id, random, tJti, tIat, tExp)
    \/ \E l \in Logins : TokenTransportFailure(l)
    \/ \E l \in Logins, tokenResponse \in TokenBodies :
            TokenResponse(l, tokenResponse)
    \/ \E l \in Logins : UserInfoTransportFailure(l)
    \/ \E l \in Logins, data \in UserInfoBodies, dbOk \in BOOLEAN :
            get_GetUserInfo(l, data, dbOk)
    \/ Tick

Spec == Init /\ [][Next]_vars

(***************************************************************************)
(* Two logins in flight at once.  Each await of the handler and of the     *)
(* service functions (app.js 46, 53; esignetService.js 55, 78, 87, 91) is  *)
(* a point where the other handler can run.  The provider answers each     *)
(* request from what the request carries: the token issued for the code,   *)
(* and the claims of the subject the bearer token was issued for.          *)
(***************************************************************************)
ConcurrentLogins == {"L1", "L2"}
ConcurrentCodes == { Str(<<"A","1">>), Str(<<"A","2">>) }
ConcurrentClientIds == { Str(<<"r","p","1">>), Str(<<"r","p","2">>) }
ConcurrentRandom == { Str(<<"1","a">>) }

\* response.data of the token POST for a code
TokenFor(code) == JObject([access_token |-> <<"t">> \o code])

\* the claims of the subject an access token was issued for
ClaimsFor(bearer) == JObject([sub |-> <<"S","-">> \o bearer, name |-> Alice])

\* response.data of the user-info GET for a bearer token
UserInfoFor(bearer) ==
    IF IsJweConfigured
    THEN Jwe("compact", {"K1"}, "jws", ClaimsFor(bearer))
    ELSE Content("jws", ClaimsFor(bearer))

InitConcurrent ==
    /\ ESIGNET_SERVICE_URL = Url
    /\ CLIENT_PRIVATE_KEY = Key("C")
    /\ USERINFO_RESPONSE_TYPE \in { Str(<<"j","w","t">>), JWE }
    /\ JWE_USERINFO_PRIVATE_KEY = Key("K1")
    /\ now = StartMs
    /\ login = [l \in ConcurrentLogins |-> Idle]
    /\ lastJti = <<>>
    /\ replayed = FALSE
    /\ users = {}
    /\ pendingApplications = EmptyObject
    /\ applications = {}
    /\ payment = [p \in PaymentCalls |-> NoCall]
    /\ lastCleanup = NoCleanup
    /\ licence_categories = SeededCategories
    /\ calculation = NoCalculation
    /\ lastAdminCall = Seeded

NextConcurrent ==
    \/ \E l \in ConcurrentLogins, code \in ConcurrentCodes,
          client_id \in ConcurrentClientIds, random \in ConcurrentRandom,
          tJti, tIat, tExp \in StartMs..MaxClock :
            post_GetToken(l, code, client_id, random, tJti, tIat, tExp)
    \/ \E l \in ConcurrentLogins : TokenTransportFailure(l)
    \/ \E l \in ConcurrentLogins :
            TokenResponse(l, TokenFor(login[l].request.code))
    \/ \E l \in ConcurrentLogins : UserInfoTransportFailure(l)
    \/ \E l \in ConcurrentLogins, dbOk \in BOOLEAN :
            get_GetUserInfo(l, UserInfoFor(login[l].request.bearer), dbOk)
    \/ Tick

SpecConcurrent == InitConcurrent /\ [][NextConcurrent]_vars

(***************************************************************************)
(* POST /api/initiate-payment: the route and initiatePayment validate the  *)
(* request, look the user up and put the application in                    *)
(* pendingApplications under a new payment reference (app.js 221-249,      *)
(* esignetService.js 395-449).  tRef, tCreatedAt: the two readings of      *)
(* Date.now().                                                             *)
(***************************************************************************)
initiatePayment(p, applicationData, random, tRef, tCreatedAt) ==
    LET op == "initiatePayment"
        userInfo == applicationData.userInfo
        medicalCertificate == applicationData.medicalCertificate
        selectedCategories == applicationData.selectedCategories
        paymentDetails == applicationData.paymentDetails
        sub == IF Truthy(userInfo.v, "sub") THEN userInfo.v.sub ELSE <<>>
        user == findBySub(sub)
        paymentReferenceId == paymentReferenceIdAt(tRef)
        applicationId == applicationIdOf(sub, random)
        applicationDataToSave ==
            [user_id |-> sub,
             application_id |-> applicationId,
             selected_categories |-> JSONstringify(selectedCategories),
             payment_reference_id |-> paymentReferenceId,
             status |-> "pending_payment",
             createdAt |-> tCreatedAt]
        throws(error) ==
            /\ payment' = [payment EXCEPT ![p] = Rejected(op, <<>>, error)]
            /\ UNCHANGED << now, pendingApplications >>
    IN  /\ payment[p].pc \in {"idle", "done"}
        /\ now <= tRef /\ tRef <= tCreatedAt
        /\ IF \/ ~Present(userInfo) \/ ~Present(medicalCertificate)
              \/ ~Present(selectedCategories) \/ ~Present(paymentDetails)
           THEN throws("Incomplete application data")
           ELSE IF sub = <<>>
           THEN throws("User subject identifier (sub) is required.")
           ELSE IF ~Truthy(paymentDetails.v, "totalAmount")
           THEN throws("User subject identifier and total amount are mandatory.")
           ELSE IF user = {}
           THEN throws("User not found in database")
           ELSE /\ pendingApplications' =
                     MapSet(pendingApplications, paymentReferenceId,
                            applicationDataToSave)
                /\ payment' = [payment EXCEPT ![p] =
                     [NoCall EXCEPT !.op = op, !.pc = "done", !.status = 200,
                                    !.paymentReferenceId = paymentReferenceId,
                                    !.applicationId = applicationId]]
                /\ now' = tCreatedAt
        /\ UNCHANGED << config, login, lastJti, replayed, users, applications >>
        /\ UNCHANGED << lastCleanup, catalogue >>

(***************************************************************************)
(* POST /api/confirm-payment: the route checks its two fields and calls    *)
(* confirmPayment, which looks the reference up, parses the categories and *)
(* calls User.saveApplication (app.js 257-273, esignetService.js 515-564). *)
(***************************************************************************)
\* variant: a reference that is not pending is not rejected; an empty
\* application is handed to User.saveApplication
confirmPayment_NoLookupCheck(p, paymentReferenceId, paymentSuccess) ==
    LET op == "confirmPayment"
        found == paymentReferenceId \in DOMAIN pendingApplications
        application == pendingApplications[paymentReferenceId]
        selectedCategories == JSONparse(application.selected_categories)
        applicationData ==
            IF found
            THEN [user_id |-> application.user_id,
                  application_id |-> application.application_id,
                  selected_categories |-> selectedCategories.value,
                  payment_reference_id |-> paymentReferenceId,
                  status |-> IF paymentSuccess = "true"
                             THEN "submitted" ELSE "pending"]
            ELSE [NoApplicationData EXCEPT
                    !.payment_reference_id = paymentReferenceId,
                    !.status = IF paymentSuccess = "true"
                               THEN "submitted" ELSE "pending"]
        throws(error) ==
            Rejected(op, paymentReferenceId, error)
    IN  /\ payment[p].pc \in {"idle", "done"}
        /\ payment' = [payment EXCEPT ![p] =
              IF paymentReferenceId = <<>> \/ paymentSuccess = "undefined"
              THEN throws("paymentReferenceId and paymentSuccess are required.")
              ELSE IF found /\ ~selectedCategories.ok
              THEN throws("Invalid selected_categories format in database")
              ELSE IF found /\ selectedCategories.value.jt \notin {"object", "array"}
              THEN throws("selected_categories must be a valid JSON object")
              ELSE [NoCall EXCEPT !.op = op, !.pc = "await_save",
                                  !.paymentReferenceId = paymentReferenceId,
                                  !.paymentSuccess = paymentSuccess,
                                  !.applicationData = applicationData]]
        /\ UNCHANGED << config, now, login, lastJti, replayed, users,
                        pendingApplications, applications >>
        /\ UNCHANGED << lastCleanup, catalogue >>

confirmPayment(p, paymentReferenceId, paymentSuccess) ==
    LET op == "confirmPayment"
        application == pendingApplications[paymentReferenceId]
        selectedCategories == JSONparse(application.selected_categories)
        applicationData ==
            [user_id |-> application.user_id,
             application_id |-> application.application_id,
             selected_categories |-> selectedCategories.value,
             payment_reference_id |-> paymentReferenceId,
             status |-> IF paymentSuccess = "true" THEN "submitted" ELSE "pending"]
        throws(error) ==
            Rejected(op, paymentReferenceId, error)
    IN  /\ payment[p].pc \in {"idle", "done"}
        /\ payment' = [payment EXCEPT ![p] =
              IF paymentReferenceId = <<>> \/ paymentSuccess = "undefined"
              THEN throws("paymentReferenceId and paymentSuccess are required.")
              ELSE IF paymentReferenceId \notin DOMAIN pendingApplications
              THEN throws("not found")
              ELSE IF ~selectedCategories.ok
              THEN throws("Invalid selected_categories format in database")
              ELSE IF selectedCategories.value.jt \notin {"object", "array"}
              THEN throws("selected_categories must be a valid JSON object")
              ELSE [NoCall EXCEPT !.op = op, !.pc = "await_save",
                                  !.paymentReferenceId = paymentReferenceId,
                                  !.paymentSuccess = paymentSuccess,
                                  !.applicationData = applicationData]]
        /\ UNCHANGED << config, now, login, lastJti, replayed, users,
                        pendingApplications, applications >>
        /\ UNCHANGED << lastCleanup, catalogue >>

(***************************************************************************)
(* User.saveApplication returns or throws, and confirmPayment resumes: on  *)
(* a saved row it deletes the reference if paymentSuccess is truthy and    *)
(* returns (esignetService.js 564-581).                                    *)
(***************************************************************************)
ApplicationSaveReturns(p, dbOk) ==
    LET call == payment[p]
        savedApp == saveApplication(call.applicationData, dbOk)
    IN  /\ call.pc = "await_save"
        /\ applications' = savedApp.rows
        /\ IF ~savedApp.ok
           THEN /\ payment' = [payment EXCEPT ![p] =
                     Rejected(call.op, call.paymentReferenceId,
                              "saveApplication threw")]
                /\ UNCHANGED pendingApplications
           ELSE /\ payment' = [payment EXCEPT ![p] =
                     [call EXCEPT !.pc = "done", !.status = 200, !.saved = TRUE,
                                  !.applicationId =
                                      call.applicationData.application_id,
                                  !.applicationData = NoApplicationData]]
                /\ pendingApplications' =
                     IF call.paymentSuccess = "true"
                     THEN MapDelete(pendingApplications, call.paymentReferenceId)
                     ELSE pendingApplications
        /\ UNCHANGED << config, now, login, lastJti, replayed, users >>
        /\ UNCHANGED << lastCleanup, catalogue >>

InitPay ==
    /\ ESIGNET_SERVICE_URL = Url
    /\ CLIENT_PRIVATE_KEY = Key("C")
    /\ USERINFO_RESPONSE_TYPE = Str(<<"j","w","t">>)
    /\ JWE_USERINFO_PRIVATE_KEY = NoKey
    /\ now = StartMs
    /\ login = [l \in Logins |-> Idle]
    /\ lastJti = <<>>
    /\ replayed = FALSE
    /\ users = {[sub |-> S1, name |-> Alice]}
    /\ pendingApplications = EmptyObject
    /\ applications = {}
    /\ payment = [p \in PaymentCalls |-> NoCall]
    /\ lastCleanup = NoCleanup
    /\ licence_categories = SeededCategories
    /\ calculation = NoCalculation
    /\ lastAdminCall = Seeded

NextPay ==
    \/ \E p \in PaymentCalls, applicationData \in ApplicationRequests,
          random \in RandomFourDigits, tRef, tCreatedAt \in StartMs..MaxClock :
            initiatePayment(p, applicationData, random, tRef, tCreatedAt)
    \/ \E p \in PaymentCalls, paymentReferenceId \in PaymentReferenceIds,
          paymentSuccess \in PaymentSuccesses :
            confirmPayment(p, paymentReferenceId, paymentSuccess)
    \/ \E p \in PaymentCalls, dbOk \in BOOLEAN : ApplicationSaveReturns(p, dbOk)
    \/ Tick

SpecPay == InitPay /\ [][NextPay]_vars

(***************************************************************************)
(* cleanupPendingApplications (esignetService.js 487-506), called by the   *)
(* 30-minute timer without an argument, or by a caller with one.  tNow:    *)
(* its reading of Date.now().  Deleting the entry being visited is safe    *)
(* for the iteration of a Map.                                             *)
(***************************************************************************)
\* variant: entries whose age equals maxAgeMs are removed as well
cleanupPendingApplications_AtLeast(maxAgeMinutes, tNow) ==
    LET maxAgeMs == maxAgeMinutes * MsPerMinute
        expired == { paymentReferenceId \in DOMAIN pendingApplications :
                       tNow - pendingApplications[paymentReferenceId].createdAt
                           >= maxAgeMs }
    IN  /\ now <= tNow
        /\ now' = tNow
        /\ pendingApplications' =
              [paymentReferenceId \in DOMAIN pendingApplications \ expired |->
                  pendingApplications[paymentReferenceId]]
        /\ lastCleanup' = [called |-> TRUE, maxAgeMinutes |-> maxAgeMinutes,
                           now |-> tNow, cleanedCount |-> Cardinality(expired)]
        /\ UNCHANGED << config, login, lastJti, replayed, users, applications,
                        payment, catalogue >>

cleanupPendingApplications(maxAgeMinutes, tNow) ==
    LET maxAgeMs == maxAgeMinutes * MsPerMinute
        expired == { paymentReferenceId \in DOMAIN pendingApplications :
                       tNow - pendingApplications[paymentReferenceId].createdAt
                           > maxAgeMs }
    IN  /\ now <= tNow
        /\ now' = tNow
        /\ pendingApplications' =
              [paymentReferenceId \in DOMAIN pendingApplications \ expired |->
                  pendingApplications[paymentReferenceId]]
        /\ lastCleanup' = [called |-> TRUE, maxAgeMinutes |-> maxAgeMinutes,
                           now |-> tNow, cleanedCount |-> Cardinality(expired)]
        /\ UNCHANGED << config, login, lastJti, replayed, users, applications,
                        payment, catalogue >>

\* the clock reaches t between two calls
TimePasses(t) ==
    /\ now < t
    /\ now' = t
    /\ UNCHANGED << config, login, lastJti, replayed, users, payments >>

InitCleanup == InitPay

NextCleanup ==
    \/ \E p \in PaymentCalls, tRef, tCreatedAt \in CleanupTimes :
            initiatePayment(p, CompleteApplication, 1000, tRef, tCreatedAt)
    \/ \E maxAgeMinutes \in MaxAges, tNow \in CleanupTimes :
            cleanupPendingApplications(maxAgeMinutes, tNow)
    \/ \E t \in CleanupTimes : TimePasses(t)

SpecCleanup == InitCleanup /\ [][NextCleanup]_vars

(***************************************************************************)
(* Licence categories (part_000 82-176, 211-280; app.js 114-215)           *)
(***************************************************************************)
\* User.getLicenceCategories, User.getLicenceCategoryByCode: active rows only
getLicenceCategories == { r \in licence_categories : r.is_active = "true" }
getLicenceCategoryByCode(categoryCode) ==
    { r \in getLicenceCategories : r.category_code = categoryCode }

\* the row with a category code, active or not (none: the empty set)
RowOf(categoryCode) ==
    { r \in licence_categories : r.category_code = categoryCode }

\* variant: the upsert of the seed also sets is_active = true
seedLicenceCategories_Reactivates ==
    /\ licence_categories' =
          { r \in licence_categories :
                \A seed \in SeedRows : seed.category_code # r.category_code }
          \cup { [category_code |-> seed.category_code, fee |-> seed.fee,
                  is_active |-> "true"] : seed \in SeedRows }
    /\ lastAdminCall' = Seeded
    /\ UNCHANGED << config, now, login, lastJti, replayed, users,
                    pendingApplications, applications, payment, lastCleanup,
                    calculation >>

\* INSERT ... ON CONFLICT (category_code) DO UPDATE: is_active is not in the
\* SET list, so a row that exists keeps its value
seedLicenceCategories ==
    /\ licence_categories' =
          { r \in licence_categories :
                \A seed \in SeedRows : seed.category_code # r.category_code }
          \cup { [category_code |-> seed.category_code, fee |-> seed.fee,
                  is_active |-> IF RowOf(seed.category_code) = {}
                                THEN "true"
                                ELSE (CHOOSE r \in RowOf(seed.category_code) :
                                          TRUE).is_active] :
                 seed \in SeedRows }
    /\ lastAdminCall' = Seeded
    /\ UNCHANGED << config, now, login, lastJti, replayed, users,
                    pendingApplications, applications, payment, lastCleanup,
                    calculation >>

\* INSERT; category_code is UNIQUE, so it throws for a code that has a row
addLicenceCategory(category_code, fee) ==
    /\ licence_categories' =
          IF RowOf(category_code) = {}
          THEN licence_categories \cup
                 {[category_code |-> category_code, fee |-> fee,
                   is_active |-> "true"]}
          ELSE licence_categories
    /\ lastAdminCall' = [op |-> "addLicenceCategory",
                         category_code |-> category_code,
                         row |-> RowOf(category_code) = {}]
    /\ UNCHANGED << config, now, login, lastJti, replayed, users,
                    pendingApplications, applications, payment, lastCleanup,
                    calculation >>

\* UPDATE ... SET fee = $3, is_active = $6 WHERE category_code = $7
updateLicenceCategory(categoryCode, fee, is_active) ==
    /\ licence_categories' =
          { IF r.category_code = categoryCode
            THEN [r EXCEPT !.fee = fee, !.is_active = is_active]
            ELSE r : r \in licence_categories }
    /\ lastAdminCall' = [op |-> "updateLicenceCategory",
                         category_code |-> categoryCode,
                         row |-> RowOf(categoryCode) # {}]
    /\ UNCHANGED << config, now, login, lastJti, replayed, users,
                    pendingApplications, applications, payment, lastCleanup,
                    calculation >>

\* UPDATE ... SET is_active = false WHERE category_code = $1
deleteLicenceCategory(categoryCode) ==
    /\ licence_categories' =
          { IF r.category_code = categoryCode
            THEN [r EXCEPT !.is_active = "false"]
            ELSE r : r \in licence_categories }
    /\ lastAdminCall' = [op |-> "deleteLicenceCategory",
                         category_code |-> categoryCode,
                         row |-> RowOf(categoryCode) # {}]
    /\ UNCHANGED << config, now, login, lastJti, replayed, users,
                    pendingApplications, applications, payment, lastCleanup,
                    calculation >>

(***************************************************************************)
(* POST /api/calculate-payment (app.js 93-107) and calculatePayment        *)
(* (esignetService.js 321-356).  The loop awaits one lookup per code;      *)
(* other requests run between two lookups.                                 *)
(***************************************************************************)
calculatePayment(array, categories) ==
    /\ calculation.pc \in {"idle", "done"}
    /\ calculation' =
          IF ~array \/ categories = <<>>
          THEN [NoCalculation EXCEPT !.pc = "done", !.array = array,
                                     !.categories = categories,
                                     !.status = 400,
                                     !.error = "An array of 'categories' is required."]
          ELSE [NoCalculation EXCEPT !.pc = "loop", !.array = array,
                                     !.categories = categories, !.next = 1]
    /\ UNCHANGED << config, now, login, lastJti, replayed, users,
                    pendingApplications, applications, payment, lastCleanup,
                    licence_categories, lastAdminCall >>

\* after the last code: the check of totalAmount and the return
Finished(calc) ==
    IF calc.next <= Len(calc.categories)
    THEN calc
    ELSE IF calc.totalAmount = 0
    THEN [calc EXCEPT !.pc = "done", !.status = 400,
              !.error = "None of the provided categories are valid or have valid fees."]
    ELSE [calc EXCEPT !.pc = "done", !.status = 200]

\* variant: a code that is already in the breakdown is not added again
LookupReturns_SkipsDuplicates(dbOk) ==
    LET categoryCode == calculation.categories[calculation.next]
        category == IF dbOk THEN getLicenceCategoryByCode(categoryCode) ELSE {}
        fee == parseFloat((CHOOSE r \in category : TRUE).fee)
        skipped == [calculation EXCEPT
                      !.next = @ + 1,
                      !.lookups = Append(@, [threw |-> ~dbOk, rows |-> category])]
    IN  /\ calculation.pc = "loop"
        /\ calculation' =
              IF category = {} THEN Finished(skipped)
              ELSE IF isNaN(fee) THEN Finished(skipped)
              ELSE IF \E i \in 1..Len(calculation.breakdown) :
                         calculation.breakdown[i].category = categoryCode
              THEN Finished(skipped)
              ELSE Finished([skipped EXCEPT
                      !.totalAmount = @ + fee.value,
                      !.breakdown = Append(@, [category |-> categoryCode,
                                               fee |-> fee.value])])
        /\ UNCHANGED << config, now, login, lastJti, replayed, users,
                        pendingApplications, applications, payment, lastCleanup,
                        licence_categories, lastAdminCall >>

\* User.getLicenceCategoryByCode returns (dbOk) or throws, and the loop goes
\* on: a missing row, a thrown lookup and a NaN fee skip the code
LookupReturns(dbOk) ==
    LET categoryCode == calculation.categories[calculation.next]
        category == IF dbOk THEN getLicenceCategoryByCode(categoryCode) ELSE {}
        fee == parseFloat((CHOOSE r \in category : TRUE).fee)
        skipped == [calculation EXCEPT
                      !.next = @ + 1,
                      !.lookups = Append(@, [threw |-> ~dbOk, rows |-> category])]
    IN  /\ calculation.pc = "loop"
        /\ calculation' =
              IF category = {} THEN Finished(skipped)
              ELSE IF isNaN(fee) THEN Finished(skipped)
              ELSE Finished([skipped EXCEPT
                      !.totalAmount = @ + fee.value,
                      !.breakdown = Append(@, [category |-> categoryCode,
                                               fee |-> fee.value])])
        /\ UNCHANGED << config, now, login, lastJti, replayed, users,
                        pendingApplications, applications, payment, lastCleanup,
                        licence_categories, lastAdminCall >>

\* req.body.categories: a list of at most n codes, or a value that is not
\* an array (its content plays no part)
CategoriesBodies(n) ==
    { [array |-> TRUE, categories |-> c] :
          c \in UNION { [1..k -> CategoryCodes] : k \in 0..n } }
    \cup { [array |-> FALSE, categories |-> <<>>] }

InitCategories == InitPay

NextCategories ==
    \/ seedLicenceCategories
    \/ \E category_code \in CategoryCodes, fee \in Fees :
            addLicenceCategory(category_code, fee)
    \/ \E categoryCode \in CategoryCodes, fee \in Fees,
          is_active \in ActiveValues :
            updateLicenceCategory(categoryCode, fee, is_active)
    \/ \E categoryCode \in CategoryCodes : deleteLicenceCategory(categoryCode)
    \/ \E body \in CategoriesBodies(MaxCategories) :
            calculatePayment(body.array, body.categories)
    \/ \E dbOk \in BOOLEAN : LookupReturns(dbOk)

SpecCategories == InitCategories /\ [][NextCategories]_vars

(***************************************************************************)
(* Properties                                                              *)
(***************************************************************************)
DecryptOps == {"compactDecrypt", "flattenedDecrypt", "generalDecrypt"}
AllStrategies == <<"compactDecrypt", "flattenedDecrypt", "generalDecrypt">>
FormatError == "Invalid user info response format"

IsDecryptOp(o) == o \in DecryptOps
IsDecodeOp(o) == o \notin DecryptOps
DecryptTrace(rec) == SelectSeq(rec.trace, IsDecryptOp)
DecodeTrace(rec) == SelectSeq(rec.trace, IsDecodeOp)

\* the login in slot l has received a user-info body and answered
Fetched(l) == login[l].pc = "done" /\ login[l].data # NoData

\* the configured decryption key was imported (the strategies can be tried)
KeyImported ==
    /\ JWE_USERINFO_PRIVATE_KEY.set
    /\ JWE_USERINFO_PRIVATE_KEY.json
    /\ JWE_USERINFO_PRIVATE_KEY.jwk

\* no serialization of the body can be decrypted with the configured key
CannotDecrypt(data) ==
    /\ ~compactDecrypt(data, JWE_USERINFO_PRIVATE_KEY.kid).ok
    /\ ~flattenedDecrypt(data, JWE_USERINFO_PRIVATE_KEY.kid).ok
    /\ ~generalDecrypt(data, JWE_USERINFO_PRIVATE_KEY.kid).ok

\* C1 (as claimed): a token response body containing an error field makes
\* the login fail without a user-info request and without a store write.
C1_ErrorFieldFailsLogin ==
    \A l \in Logins :
        "error" \in DOMAIN login[l].tokenResponse.v
            => /\ login[l].pc = "done"
               /\ login[l].status # 200
               /\ login[l].gets = 0
               /\ login[l].save = "not called"

\* C2: whenever the user-info body was fetched and decodes successfully, the
\* login answers 200 with exactly the decoded claims, whatever the
\* credential-store save did (saved, threw, or was skipped).
C2_SaveNeverFailsLogin ==
    \A l \in Logins :
        (Fetched(l) /\ decodeUserInfoResponse(login[l].data).ok)
            => /\ login[l].status = 200
               /\ login[l].error = "none"
               /\ login[l].result = decodeUserInfoResponse(login[l].data).value
               /\ login[l].save \in {"saved", "saveUser threw",
                                     "sub is required", "TypeError"}

C2_Witness ==
    \E l \in Logins :
        /\ Fetched(l)
        /\ login[l].status = 200
        /\ login[l].save = "saveUser threw"
        /\ login[l].result = JObject([sub |-> S1, name |-> Alice])

\* C3: with response type jwe the strategies are tried in the order compact,
\* flattened, general; flattened only if compact failed, general only if
\* both failed, none after a success, and the decryption stage fails only if
\* all three failed.
C3_StrategyOrder ==
    \A l \in Logins :
        (Fetched(l) /\ IsJweConfigured /\ KeyImported)
            => LET d == login[l].data
                   k == JWE_USERINFO_PRIVATE_KEY.kid
                   t == DecryptTrace(login[l])
                   c == compactDecrypt(d, k).ok
                   f == flattenedDecrypt(d, k).ok
                   g == generalDecrypt(d, k).ok
               IN  /\ t \in { SubSeq(AllStrategies, 1, n) : n \in 1..3 }
                   /\ (Len(t) >= 2 => ~c)
                   /\ (Len(t) = 3 => ~c /\ ~f)
                   /\ (c => Len(t) = 1)
                   /\ (~c /\ f => Len(t) = 2)
                   /\ (login[l].error = "DecryptionError" => ~c /\ ~f /\ ~g)
                   /\ (c \/ f \/ g => login[l].error # "DecryptionError")

C3_Witness ==
    \E l \in Logins :
        /\ Fetched(l) /\ IsJweConfigured /\ KeyImported
        /\ DecryptTrace(login[l]) = AllStrategies
        /\ login[l].status = 200

\* C4: with response type jwe and a key that cannot decrypt the body, the
\* fetch fails with the decryption error after each of the three strategies
\* was attempted exactly once; no claims are returned and the credential
\* store is not written.  The decryption error never occurs otherwise.
C4_WrongKeyExhaustsStrategies ==
    [][ \A l \in Logins :
          (login[l].pc = "await_userinfo" /\ login'[l].pc = "done"
                /\ login'[l].data # NoData)
            => /\ (IsJweConfigured /\ KeyImported /\ CannotDecrypt(login'[l].data))
                    => /\ login'[l].error = "DecryptionError"
                       /\ login'[l].status = 500
                       /\ login'[l].result = JNull
                       /\ login'[l].save = "not called"
                       /\ users' = users
               /\ login'[l].error = "DecryptionError"
                    => /\ DecryptTrace(login'[l]) = AllStrategies
                       /\ login'[l].trace = AllStrategies
                       /\ IsJweConfigured /\ CannotDecrypt(login'[l].data)
      ]_vars

C4_Witness ==
    \E l \in Logins :
        /\ Fetched(l)
        /\ JWE_USERINFO_PRIVATE_KEY = Key("K2")
        /\ login[l].data.enc = "flattened"
        /\ login[l].error = "DecryptionError"
        /\ login[l].trace = AllStrategies

\* C5: with response type jwe and the right key, an envelope wrapping a
\* signed token t gives the same answer as t itself gives with response
\* type jwt (where the body goes straight to the decoding stage), in each of
\* the three serializations.
C5_WrappedEqualsUnwrapped ==
    \A l \in Logins :
        (/\ Fetched(l) /\ IsJweConfigured /\ KeyImported
         /\ login[l].data.enc \in {"compact", "flattened", "general"}
         /\ login[l].data.kind = "jws"
         /\ JWE_USERINFO_PRIVATE_KEY.kid \in login[l].data.rcpt)
            => LET t == Content("jws", login[l].data.val)
                   unwrapped == DecodeStage(t)
               IN  IF unwrapped.ok
                   THEN /\ login[l].status = 200
                        /\ login[l].result = unwrapped.value
                        /\ login[l].result = login[l].data.val
                   ELSE /\ login[l].status = 500
                        /\ login[l].error = unwrapped.error

C5_Witness ==
    \E l \in Logins :
        /\ Fetched(l) /\ IsJweConfigured
        /\ login[l].data = Jwe("flattened", {"K1"}, "jws",
                               JObject([sub |-> S1, name |-> Alice]))
        /\ login[l].status = 200
        /\ login[l].result = JObject([sub |-> S1, name |-> Alice])

\* C6: after the decryption step the payload is first decoded as a compact
\* signed token; only if that fails is it parsed as JSON (a body that is not
\* a string is returned as it is), and the format error is raised only if
\* both the token decode and the JSON parse failed.
C6_DecodeThenParse ==
    \A l \in Logins :
        (Fetched(l) /\ DecryptStage(login[l].data).ok)
            => LET r == DecryptStage(login[l].data).response
                   t == DecodeTrace(login[l])
                   j == decodeJwt(r)
                   p == JSONparse(r)
               IN  /\ t \in { <<"decodeJwt">>, <<"decodeJwt", "JSON.parse">> }
                   /\ (Len(t) = 2 => ~j.ok)
                   /\ (j.ok => login[l].status = 200 /\ login[l].result = j.value)
                   /\ (~j.ok /\ IsString(r) /\ p.ok
                         => /\ Len(t) = 2
                            /\ login[l].status = 200
                            /\ login[l].result = p.value)
                   /\ (login[l].error = FormatError
                         <=> ~j.ok /\ IsString(r) /\ ~p.ok)
                   /\ (login[l].error = FormatError => Len(t) = 2)

C6_Witness ==
    \E l \in Logins :
        /\ Fetched(l) /\ ~IsJweConfigured
        /\ login[l].data = Content("text", JObject([sub |-> S1, name |-> Alice]))
        /\ login[l].trace = <<"decodeJwt", "JSON.parse">>
        /\ login[l].status = 200
        /\ login[l].result = JObject([sub |-> S1, name |-> Alice])

\* C7 (as claimed): every successful fetch returns a claims mapping, the
\* complete one carried by the provider's payload.
C7_OnlyCompleteClaims ==
    \A l \in Logins :
        (login[l].pc = "done" /\ login[l].status = 200)
            => /\ login[l].result.jt = "object"
               /\ login[l].result = login[l].data.val

\* a required configuration item is missing or malformed
ConfigurationInvalid ==
    \/ baseUrl = <<>>
    \/ ~CLIENT_PRIVATE_KEY.set \/ ~CLIENT_PRIVATE_KEY.jwk
    \/ (IsJweConfigured /\ ~KeyImported)

\* C8 (as claimed): when a required configuration item is missing or
\* malformed, every login fails and no request is sent to the token or the
\* user-info endpoint.
C8_ConfigFailsBeforeNetwork ==
    ConfigurationInvalid
        => \A l \in Logins :
              /\ login[l].posts = 0
              /\ login[l].gets = 0
              /\ login[l].pc = "done" => login[l].status = 500

\* C9 (as claimed): the aud claim of the client assertion equals the URL the
\* token request carrying it is sent to.
C9_AudienceIsTokenEndpoint ==
    \A l \in Logins :
        login[l].pc = "await_token"
            => login[l].request.assertion.aud = login[l].request.url

\* C10 (as claimed): no two calls of generateSignedJwt produce the same jti.
C10_JtiNeverRepeats == replayed = FALSE

\* C11 (as claimed): the exp claim of every client assertion is exactly 300
\* seconds after its iat claim, whatever the clock does between
\* setIssuedAt() and setExpirationTime("5m").
C11_ExpiryIsIssuedAtPlus300 ==
    \A l \in Logins :
        login[l].pc = "await_token"
            => login[l].request.assertion.exp
                 = login[l].request.assertion.iat + FiveMinutes

\* C12: within one login the token endpoint is POSTed at most once and the
\* user-info endpoint requested at most once; after a network call failed
\* the login has ended and nothing is sent again.
C12_NoRetry ==
    \A l \in Logins :
        /\ login[l].posts <= 1
        /\ login[l].gets <= 1
        /\ login[l].gets <= login[l].posts
        /\ login[l].failed # "none"
              => login[l].pc = "done" /\ login[l].request = NoRequest

C12_Witness ==
    \E l \in Logins :
        /\ login[l].failed = "user-info GET"
        /\ login[l].pc = "done"
        /\ login[l].posts = 1
        /\ login[l].gets = 1

\* C13: when the token POST fails in transport the login fails, no
\* user-info request is sent and nothing is saved; when the user-info GET
\* fails in transport the login fails and nothing is saved.
C13_TransportFailureEndsLogin ==
    [][ \A l \in Logins :
          (login'[l].failed # "none" /\ login'[l] # login[l])
            => /\ login'[l].pc = "done"
               /\ login'[l].status = 500
               /\ login'[l].error = "TransportError"
               /\ login'[l].result = JNull
               /\ login'[l].saveCalls = 0
               /\ login'[l].save = "not called"
               /\ users' = users
               /\ login'[l].failed = "token POST"
                    => login[l].pc = "await_token" /\ login'[l].gets = 0
               /\ login'[l].failed = "user-info GET"
                    => login[l].pc = "await_userinfo"
      ]_vars

C13_Witness ==
    \E l \in Logins :
        /\ login[l].failed = "token POST"
        /\ login[l].pc = "done"
        /\ login[l].status = 500
        /\ login[l].gets = 0
        /\ users # {}

\* C14: the steps of a login occur in the order token exchange, user-info
\* fetch and decode, save: the user-info request is sent only after the token
\* exchange of the same login returned a body, saveUserToDatabase is called
\* only after the user-info body was decoded successfully, and at most once
\* per login.
C14_StepOrder ==
    \A l \in Logins :
        /\ login[l].gets >= 1
              => /\ login[l].posts = 1
                 /\ login[l].tokenResponse # NoResponse
                 /\ login[l].pc \in {"await_userinfo", "done"}
        /\ login[l].data # NoData => login[l].gets = 1
        /\ login[l].saveCalls <= 1
        /\ (login[l].saveCalls = 0 <=> login[l].save = "not called")
        /\ login[l].saveCalls = 1
              => /\ login[l].pc = "done"
                 /\ login[l].data # NoData
                 /\ decodeUserInfoResponse(login[l].data).ok
                 /\ login[l].trace = decodeUserInfoResponse(login[l].data).trace

C14_Witness ==
    \E l \in Logins :
        /\ login[l].pc = "done"
        /\ login[l].posts = 1 /\ login[l].gets = 1
        /\ login[l].saveCalls = 1
        /\ login[l].save = "saved"
        /\ login[l].status = 200

\* C15: with response type jwt (no decryption), a token response carrying an
\* access_token and a user-info body that is a compact signed token with a
\* claims payload, the login answers 200 with exactly the payload's claims;
\* the name fallback and the renaming done for the store do not change them.
C15_ReturnsPayloadClaims ==
    \A l \in Logins :
        (/\ Fetched(l) /\ ~IsJweConfigured
         /\ "access_token" \in DOMAIN login[l].tokenResponse.v
         /\ login[l].data.enc = "none"
         /\ login[l].data.kind = "jws"
         /\ login[l].data.val.jt = "object")
            => /\ login[l].status = 200
               /\ login[l].error = "none"
               /\ login[l].result = login[l].data.val

C15_Witness ==
    \E l \in Logins :
        /\ Fetched(l) /\ ~IsJweConfigured
        /\ login[l].tokenResponse = JObject([access_token |-> Tok1])
        /\ login[l].data = Content("jws", JObject([user_id |-> LongSub,
                                                   name |-> Unknown]))
        /\ login[l].result = JObject([user_id |-> LongSub, name |-> Unknown])
        /\ login[l].save = "saved"
        /\ \E u \in users :
              u.sub = LongSub /\ u.name = UserPrefix \o substring(LongSub, 0, SubPrefixLen)

\* C16 (as claimed): every claims payload returned by a successful fetch
\* contains a subject identifier (sub).
C16_ReturnedClaimsHaveSub ==
    \A l \in Logins :
        (login[l].pc = "done" /\ login[l].status = 200)
            => /\ login[l].result.jt = "object"
               /\ Truthy(login[l].result.v, "sub")

\* every request a login has in flight carries that login's own code, client
\* assertion and access token, and a successful login answers with the
\* claims of the subject its own code stands for
OwnRequestsOwnClaims ==
    \A l \in DOMAIN login :
        LET own == TokenFor(login[l].code)
        IN  /\ login[l].pc = "await_token"
                => /\ login[l].request.code = login[l].code
                   /\ login[l].request.assertion.iss = login[l].client_id
                   /\ login[l].request.assertion.sub = login[l].client_id
            /\ login[l].pc = "await_userinfo"
                => /\ login[l].tokenResponse = own
                   /\ login[l].request.bearer = own.v.access_token
            /\ (login[l].pc = "done" /\ login[l].status = 200)
                => /\ login[l].tokenResponse = own
                   /\ login[l].data = UserInfoFor(own.v.access_token)
                   /\ login[l].result = ClaimsFor(own.v.access_token)

\* a step of one login leaves the record of every other login as it was
StepsOneLogin ==
    \A l, m \in DOMAIN login :
        (l # m /\ login'[l] # login[l]) => login'[m] = login[m]

\* C17: in every interleaving of two concurrent logins each login sends its
\* own code and client assertion, uses its own access token and returns the
\* claims obtained with it, and no step of one login changes what the other
\* has stored.
C17_LoginsAreIsolated == [][OwnRequestsOwnClaims' /\ StepsOneLogin]_vars

C17_Witness ==
    /\ login["L1"].pc = "done" /\ login["L1"].status = 200
    /\ login["L2"].pc = "done" /\ login["L2"].status = 200
    /\ login["L1"].code # login["L2"].code
    /\ login["L1"].result # login["L2"].result
    /\ login["L1"].result = ClaimsFor(<<"t">> \o login["L1"].code)

\* C18 (as claimed): User.saveApplication is called, and a row written to the
\* application store, only by a confirmPayment call whose paymentSuccess is
\* true; initiatePayment and a confirmPayment with paymentSuccess false
\* never save.
C18_SavesOnlyPaidApplications ==
    /\ \A p \in PaymentCalls :
          (payment[p].pc = "await_save" \/ payment[p].saved)
              => /\ payment[p].op = "confirmPayment"
                 /\ payment[p].paymentSuccess = "true"
    /\ \A row \in applications : row.status = "submitted"

\* the route has called confirmPayment in this step, from slot p
ConfirmPaymentCalled(p) ==
    /\ payment[p].pc \in {"idle", "done"}
    /\ payment'[p] # payment[p]
    /\ payment'[p].op = "confirmPayment"
    /\ payment'[p].error # "paymentReferenceId and paymentSuccess are required."

\* a confirmPayment call with paymentSuccess true has completed for ref
ConfirmedSuccessfully(ref) ==
    \E row \in applications :
        row.payment_reference_id = ref /\ row.status = "submitted"

\* C19 (as claimed): when a confirmPayment call with paymentSuccess true
\* completes successfully, its reference is no longer in
\* pendingApplications, and every later confirmPayment call for that
\* reference fails with 'not found' without saving anything.
C19_ConfirmedReferenceIsGone ==
    [][ \A p \in PaymentCalls :
          /\ (/\ payment[p].pc = "await_save"
              /\ payment[p].paymentSuccess = "true"
              /\ payment'[p].saved)
                => payment[p].paymentReferenceId
                      \notin DOMAIN pendingApplications'
          /\ (/\ ConfirmPaymentCalled(p)
              /\ ConfirmedSuccessfully(payment'[p].paymentReferenceId))
                => /\ payment'[p].pc = "done"
                   /\ payment'[p].status = 400
                   /\ payment'[p].error = "not found"
                   /\ applications' = applications
      ]_vars

\* C20: a confirmPayment call for a reference that is not in
\* pendingApplications throws the 'not found' error (answered with 400),
\* does not call User.saveApplication and leaves pendingApplications and the
\* application store as they were; the error is thrown in no other case.
C20_UnknownReferenceRejected ==
    [][ \A p \in PaymentCalls :
          ConfirmPaymentCalled(p)
            => /\ payment'[p].paymentReferenceId \notin DOMAIN pendingApplications
                    => /\ payment'[p].pc = "done"
                       /\ payment'[p].status = 400
                       /\ payment'[p].error = "not found"
                       /\ payment'[p].applicationData = NoApplicationData
                       /\ ~payment'[p].saved
                       /\ pendingApplications' = pendingApplications
                       /\ applications' = applications
               /\ payment'[p].error = "not found"
                    => payment'[p].paymentReferenceId
                          \notin DOMAIN pendingApplications
      ]_vars

C20_Witness ==
    \E p \in PaymentCalls :
        /\ payment[p].op = "confirmPayment"
        /\ payment[p].pc = "done"
        /\ payment[p].error = "not found"
        /\ ConfirmedSuccessfully(payment[p].paymentReferenceId)
        /\ payment[p].paymentReferenceId \notin DOMAIN pendingApplications
        /\ pendingApplications # EmptyObject

\* C21: cleanupPendingApplications(maxAgeMinutes) removes exactly the
\* entries whose age now - createdAt is strictly greater than maxAgeMinutes
\* minutes and leaves every other entry, and everything else, as it was;
\* with the default of 60 minutes an entry younger than 60 minutes stays.
C21_CleanupRemovesExpiredOnly ==
    [][ lastCleanup' # lastCleanup
          => LET maxAgeMs == lastCleanup'.maxAgeMinutes * MsPerMinute
                 age(ref) == lastCleanup'.now - pendingApplications[ref].createdAt
             IN  /\ DOMAIN pendingApplications' =
                       { ref \in DOMAIN pendingApplications : age(ref) <= maxAgeMs }
                 /\ \A ref \in DOMAIN pendingApplications' :
                       pendingApplications'[ref] = pendingApplications[ref]
                 /\ lastCleanup'.cleanedCount =
                       Cardinality(DOMAIN pendingApplications)
                         - Cardinality(DOMAIN pendingApplications')
                 /\ UNCHANGED << applications, payment, users >>
                 /\ lastCleanup'.maxAgeMinutes = DefaultMaxAgeMinutes
                       => \A ref \in DOMAIN pendingApplications :
                             age(ref) < DefaultMaxAgeMinutes * MsPerMinute
                                => ref \in DOMAIN pendingApplications'
      ]_vars

C21_Witness ==
    /\ lastCleanup.called
    /\ lastCleanup.maxAgeMinutes = DefaultMaxAgeMinutes
    /\ lastCleanup.now = now
    /\ \E ref \in DOMAIN pendingApplications :
          now - pendingApplications[ref].createdAt
              = DefaultMaxAgeMinutes * MsPerMinute
    /\ lastCleanup.cleanedCount = 1
    /\ paymentReferenceIdAt(StartMs) \notin DOMAIN pendingApplications


\* the codes among the first n of a request whose lookup returned a row with
\* a numeric fee, each with that fee, in the order of the request
RECURSIVE ResolvedCodes(_, _, _)
ResolvedCodes(categories, lookups, n) ==
    IF n = 0 THEN <<>>
    ELSE LET before == ResolvedCodes(categories, lookups, n - 1)
             rows == lookups[n].rows
             fee == (CHOOSE r \in rows : TRUE).fee
         IN  IF rows = {} THEN before
             ELSE IF fee.nan THEN before
             ELSE Append(before, [category |-> categories[n],
                                  fee |-> fee.digits])

RECURSIVE SumOfFees(_)
SumOfFees(breakdown) ==
    IF breakdown = <<>> THEN 0
    ELSE breakdown[1].fee + SumOfFees(Tail(breakdown))

\* C22: every lookup of calculatePayment gives the active row of the code at
\* that moment (or nothing, when there is none or the lookup throws); the
\* breakdown holds, in the order of the request and with duplicates kept,
\* exactly the codes whose lookup gave an active row with a numeric fee, and
\* totalAmount is the sum of the fees in the breakdown.
C22_BreakdownIsResolvedCodes ==
    [][ calculation' # calculation =>
          /\ calculation.pc = "loop" =>
                /\ Len(calculation'.lookups) = calculation.next
                /\ LET lookup == calculation'.lookups[calculation.next]
                   IN  lookup.rows =
                          IF lookup.threw THEN {}
                          ELSE { r \in licence_categories :
                                   /\ r.category_code =
                                         calculation.categories[calculation.next]
                                   /\ r.is_active = "true" }
          /\ calculation'.breakdown =
                ResolvedCodes(calculation'.categories, calculation'.lookups,
                              Len(calculation'.lookups))
          /\ calculation'.totalAmount = SumOfFees(calculation'.breakdown)
          /\ calculation'.pc = "done" /\ calculation'.status = 200 =>
                Len(calculation'.lookups) = Len(calculation'.categories) ]_vars

\* a request naming the seeded category twice is answered with both entries
C22_Witness ==
    /\ calculation.pc = "done"
    /\ calculation.status = 200
    /\ calculation.categories = << CodeA, CodeA >>
    /\ calculation.breakdown = << [category |-> CodeA, fee |-> SeedFee],
                                  [category |-> CodeA, fee |-> SeedFee] >>
    /\ calculation.totalAmount = 2 * SeedFee

NoneValid == "None of the provided categories are valid or have valid fees."

\* C23: a calculatePayment call over a non-empty array fails with 'None of
\* the provided categories are valid or have valid fees.' exactly when none
\* of its codes resolved to an active category with a numeric fee; with at
\* least one such code, a fee of 0 included, it returns a result.
C23_FailsIffNoneValid ==
    /\ calculation.pc = "done"
    /\ calculation.array
    /\ calculation.categories # <<>>
    => LET valid == ResolvedCodes(calculation.categories, calculation.lookups,
                                  Len(calculation.lookups))
       IN  /\ calculation.error = NoneValid <=> valid = <<>>
           /\ valid # <<>> => calculation.status = 200

\* the code's row is there and marked deleted
SoftDeleted(categoryCode) ==
    \E r \in licence_categories :
        r.category_code = categoryCode /\ r.is_active = "false"

\* C24: a deleteLicenceCategory call that hit a row leaves the row in the
\* table, marked deleted.  While a row is marked deleted it is not among
\* getLicenceCategories, getLicenceCategoryByCode finds nothing for its code
\* (the service then fails with 'not found'), and a calculatePayment lookup
\* of the code adds nothing to the breakdown.  The row stays, and it stays
\* marked deleted through every step other than an updateLicenceCategory of
\* that code; seedLicenceCategories in particular does not reactivate it.
C24_SoftDeleteLasts ==
    [][ /\ lastAdminCall'.op = "deleteLicenceCategory" /\ lastAdminCall'.row
              => \E r \in licence_categories' :
                    /\ r.category_code = lastAdminCall'.category_code
                    /\ r.is_active = "false"
        /\ \A categoryCode \in CategoryCodes :
              SoftDeleted(categoryCode) =>
                /\ \A r \in getLicenceCategories :
                        r.category_code # categoryCode
                /\ getLicenceCategoryByCode(categoryCode) = {}
                /\ RowOf(categoryCode)' # {}
                /\ \/ SoftDeleted(categoryCode)'
                   \/ /\ lastAdminCall'.op = "updateLicenceCategory"
                      /\ lastAdminCall'.category_code = categoryCode
                      /\ lastAdminCall'.row
                /\ /\ calculation.pc = "loop"
                   /\ calculation' # calculation
                   /\ calculation.categories[calculation.next] = categoryCode
                   => /\ calculation'.lookups[calculation.next].rows = {}
                      /\ calculation'.breakdown = calculation.breakdown
                      /\ calculation'.totalAmount = calculation.totalAmount
      ]_vars

\* the seeded category has been deleted and its row is still there; the
\* calculation that then named it found nothing for it
C24_Witness ==
    /\ lastAdminCall = [op |-> "deleteLicenceCategory",
                        category_code |-> CodeA, row |-> TRUE]
    /\ SoftDeleted(CodeA)
    /\ calculation.pc = "done"
    /\ calculation.array
    /\ calculation.categories = << CodeB, CodeA >>
    /\ calculation.lookups[1].rows # {}
    /\ calculation.lookups[2] = [threw |-> FALSE, rows |-> {}]
    /\ calculation.breakdown = << [category |-> CodeB, fee |-> SeedFee] >>
    /\ calculation.status = 200

\* C25: a login whose user-info request has been sent holds a token response
\* with an access_token, and the request's bearer is exactly that
\* access_token; a token response with neither error nor access_token leads
\* to no user-info request.
C25_BearerIsOwnAccessToken ==
    \A l \in DOMAIN login :
        login[l].gets > 0 =>
            /\ login[l].tokenResponse.jt = "object"
            /\ "access_token" \in DOMAIN login[l].tokenResponse.v
            /\ login[l].pc = "await_userinfo" =>
                  login[l].request.bearer =
                      login[l].tokenResponse.v.access_token

\* C26: User.saveApplication is invoked at most once for a payment
\* reference: a confirmPayment call that reaches User.saveApplication finds
\* no application row that an earlier call saved for its reference.
C26_SavedAtMostOncePerReference ==
    [][ \A p \in PaymentCalls :
            /\ payment[p].pc # "await_save"
            /\ payment'[p].pc = "await_save"
            => \A row \in applications :
                   row.payment_reference_id # payment'[p].paymentReferenceId
      ]_vars

\* C27: a successful initiatePayment gets a payment reference that no
\* pending application has, so no step replaces the data stored under a
\* reference that is pending.
C27_PendingEntryNeverOverwritten ==
    [][ /\ \A paymentReferenceId \in
                 DOMAIN pendingApplications \cap DOMAIN pendingApplications' :
              pendingApplications'[paymentReferenceId] =
                  pendingApplications[paymentReferenceId]
        /\ \A p \in PaymentCalls :
              /\ payment'[p].op = "initiatePayment"
              /\ payment'[p].status = 200
              /\ pendingApplications' # pendingApplications
              => payment'[p].paymentReferenceId
                     \notin DOMAIN pendingApplications
      ]_vars
====
